---- MODULE Spec2Model ----
(***************************************************************************)
(* Model of backend.py: the in-memory upload store (upload_sheet) and the *)
(* workforce-redeployment optimisation (build_model_inputs, optimize).    *)
(*                                                                         *)
(* Units.  Hours are counted in thousandths of an hour, so that the       *)
(* two-decimal rounding of the output table is a real conversion:         *)
(* CAPACITY_HOURS 6.5 is 6500, a workload of 20 hours is 20000.  ALPHA is *)
(* in percent (0.10 is 10).  BIG_M is 10000 per hour of shortage, that is *)
(* BIG_M \div 1000 = 10 per thousandth of an hour (exact).                 *)
(*                                                                         *)
(* Strings that the code inspects (func, the "f|r" keys) are sequences of *)
(* one-character strings; a role name is a single token.                  *)
(***************************************************************************)
EXTENDS Integers, Sequences, FiniteSets, TLC

VARIABLES
    EMPLOYEES,   \* backend.py:21  list of stored employee records
    FUNCTIONS,   \* backend.py:22  dict: stripped function name -> aggregate dict
    dictId,      \* identity of the dict object FUNCTIONS[f] currently refers to
    pc,          \* position of each concurrently running upload_sheet call
    frame,       \* locals of each concurrently running upload_sheet call
    resp,        \* the response of the handler that ran last, not yet consumed
    last         \* the previous optimize exchange the client remembers

vars == <<EMPLOYEES, FUNCTIONS, dictId, pc, frame, resp, last>>

(***************************************************************************)
(* Bounds of the model.                                                    *)
(***************************************************************************)
MaxEmp == 2
NumCalls == 2
MaxManager == 5
MaxOfficer == 3

(***************************************************************************)
(* Program constants.                                                      *)
(***************************************************************************)
ROLES == <<"Manager", "AsstManager", "Officer", "Executive">>

RoleSet == {ROLES[i] : i \in 1..Len(ROLES)}

CAPACITY_HOURS == 6500

ALPHA == [Manager |-> 10, AsstManager |-> 20, Officer |-> 0, Executive |-> 0]

PENALTY_REMOVE == [Manager |-> 3, AsstManager |-> 2, Officer |-> 1, Executive |-> 1]

BIG_M == 10000

(***************************************************************************)
(* Inputs.                                                                 *)
(***************************************************************************)
\* EmployeeSheet payloads (func, min, max, avg); name, code and role are
\* stored but never read by the backend.
EmpSheets ==
    { [func |-> <<"O">>,           min |-> 5000,  max |-> 15000,  avg |-> 10000],
      [func |-> <<" ", "O", " ">>, min |-> 1000,  max |-> 6000,   avg |-> 3255],
      [func |-> <<"H">>,           min |-> -2000, max |-> 0,      avg |-> -1000],
      [func |-> <<"H", " ">>,      min |-> 90000, max |-> 110000, avg |-> 100002] }

\* function names a request may use in its keys
ReqFuncs == {<<"O">>, <<"H">>}

\* headcount a request supplies per role: <<>> is "key absent", <<n>> the value n
ManagerHC == {<<-1>>, <<0>>, <<1>>, <<2>>, <<MaxManager>>}
AsstHC    == {<<>>, <<0>>, <<1>>}
OfficerHC == {<<0>>, <<1>>, <<MaxOfficer>>}
ExecHC    == {<<0>>, <<1>>}

\* f"{f}|{r}"
KeyOf(f, r) == f \o <<"|", r>>

MakeReq(g, p) ==
    [k \in {KeyOf(g, r) : r \in {q \in RoleSet : p[q] # <<>>}} |-> p[k[Len(k)]][1]]

Requests ==
    { MakeReq(g, [Manager |-> a, AsstManager |-> b, Officer |-> c, Executive |-> d]) :
        g \in ReqFuncs, a \in ManagerHC, b \in AsstHC, c \in OfficerHC, d \in ExecHC }

(***************************************************************************)
(* Helpers of the Python runtime.                                          *)
(***************************************************************************)
IsSpace(ch) == ch = " "

RECURSIVE LStrip(_)
LStrip(s) == IF s # <<>> /\ IsSpace(Head(s)) THEN LStrip(Tail(s)) ELSE s

RECURSIVE RStrip(_)
RStrip(s) ==
    IF s # <<>> /\ IsSpace(s[Len(s)]) THEN RStrip(SubSeq(s, 1, Len(s) - 1)) ELSE s

\* str.strip()
Strip(s) == RStrip(LStrip(s))

\* dict.get(key, default)
Get(d, key, default) == IF key \in DOMAIN d THEN d[key] ELSE default

\* round(v, 2): the results round() can give for v thousandths.  A value
\* halfway between two hundredths is not decided by its decimal digits (it
\* depends on the binary float), so both neighbours are possible.
Round2(v) ==
    LET r == v % 10
        b == v - r
    IN  IF r < 5 THEN {b} ELSE IF r > 5 THEN {b + 10} ELSE {b, b + 10}

Max(a, b) == IF a >= b THEN a ELSE b

(***************************************************************************)
(* The store.                                                              *)
(***************************************************************************)
Calls == 1..NumCalls

NoResp == [kind |-> "none"]

NoFrame == [emp |-> <<>>, f |-> <<>>, k |-> 0, tmp |-> <<>>]

Init ==
    /\ EMPLOYEES = <<>>
    /\ FUNCTIONS = <<>>
    /\ dictId = <<>>
    /\ pc = [c \in Calls |-> "idle"]
    /\ frame = [c \in Calls |-> NoFrame]
    /\ resp = NoResp
    /\ last = NoResp

\* dict(employees=0, min=0.0, max=0.0, avg=0.0)
FreshDict == [employees |-> 0, min |-> 0, max |-> 0, avg |-> 0]

\* d[k] = v on a dict modelled as a function
Put(d, k, v) == [x \in DOMAIN d \cup {k} |-> IF x = k THEN v ELSE d[x]]

\* upload_sheet run alone, from its first line to its return
upload_sheet(emp) ==
    /\ resp = NoResp
    /\ \A c \in Calls : pc[c] = "idle"
    /\ Len(EMPLOYEES) < MaxEmp
    /\ LET f    == Strip(emp.func)
           old  == IF f \in DOMAIN FUNCTIONS THEN FUNCTIONS[f] ELSE FreshDict
           new  == [employees |-> old.employees + 1,
                    min |-> old.min + emp.min,
                    max |-> old.max + emp.max,
                    avg |-> old.avg + emp.avg]
       IN  /\ EMPLOYEES' = Append(EMPLOYEES, emp)
           /\ FUNCTIONS' = Put(FUNCTIONS, f, new)
           /\ dictId' = IF f \in DOMAIN FUNCTIONS THEN dictId
                        ELSE Put(dictId, f, Len(EMPLOYEES) + 1)
           /\ resp' = [kind |-> "upload_sheet", status |-> "stored", function |-> f]
    /\ UNCHANGED <<pc, frame, last>>

\* the caller consumes the response
deliver ==
    /\ resp # NoResp
    /\ resp' = NoResp
    /\ UNCHANGED <<EMPLOYEES, FUNCTIONS, dictId, pc, frame, last>>

(***************************************************************************)
(* build_model_inputs.                                                     *)
(***************************************************************************)
\* F, W and N_current as build_model_inputs returns them (R and C are the
\* constants ROLES and CAPACITY_HOURS).  N is kept per function: N[f][r].
build_model_inputs(N_current_req) ==
    LET F == DOMAIN FUNCTIONS
    IN  [F |-> F,
         W |-> [f \in F |-> FUNCTIONS[f].avg],
         N |-> [f \in F |-> [r \in RoleSet |-> Get(N_current_req, KeyOf(f, r), 0)]]]

(***************************************************************************)
(* The model handed to the solver.  Every constraint is indexed by one    *)
(* function f and the objective is a sum over f, so an assignment is      *)
(* optimal exactly when its part for each f is optimal for f: the         *)
(* operators below take the data of one function (w = W[f], n = N[f]),    *)
(* its headcounts x = x[f, .] and its slack s = short[f].                 *)
(***************************************************************************)
total_hc(x) == x[ROLES[1]] + x[ROLES[2]] + x[ROLES[3]] + x[ROLES[4]]

\* slip: the slack variable left out of the coverage constraint
workload_rule_noSlack(w, x, s) == total_hc(x) * CAPACITY_HOURS >= w

\* Constraint 1
workload_rule(w, x, s) == total_hc(x) * CAPACITY_HOURS + s >= w

\* slip: ceiling off by one upwards
upper_rule_plusOne(n, x, r) == x[r] <= n[r] + 1

\* slip: strict ceiling
upper_rule_strict(n, x, r) == x[r] < n[r]

\* Constraint 2
upper_rule(n, x, r) == x[r] <= n[r]

\* slip: every role skipped
role_share_skipped(x, r) == TRUE

\* Constraint 3
role_share(x, r) ==
    IF ALPHA[r] <= 0 THEN TRUE
    ELSE 100 * x[r] >= ALPHA[r] * total_hc(x)

removed_cost(n, x) ==
      PENALTY_REMOVE[ROLES[1]] * (n[ROLES[1]] - x[ROLES[1]])
    + PENALTY_REMOVE[ROLES[2]] * (n[ROLES[2]] - x[ROLES[2]])
    + PENALTY_REMOVE[ROLES[3]] * (n[ROLES[3]] - x[ROLES[3]])
    + PENALTY_REMOVE[ROLES[4]] * (n[ROLES[4]] - x[ROLES[4]])

\* slip: the shortage term left out
obj_noShortage(n, x, s) == removed_cost(n, x)

\* slip: m.pen left out, every removal costs 1
obj_unweighted(n, x, s) ==
    (n[ROLES[1]] - x[ROLES[1]]) + (n[ROLES[2]] - x[ROLES[2]])
        + (n[ROLES[3]] - x[ROLES[3]]) + (n[ROLES[4]] - x[ROLES[4]])
        + (BIG_M \div 1000) * s

\* slip: sign of the removal term, retained people are penalised
obj_retained(n, x, s) == (BIG_M \div 1000) * s - removed_cost(n, x)

\* the terms of the objective that belong to one function
obj(n, x, s) == removed_cost(n, x) + (BIG_M \div 1000) * s

\* Var(m.F, m.R, domain=NonNegativeIntegers): a finite window of the domain
\* that reaches past the ceiling n[r] of every role
XDom(n) ==
    { [Manager |-> a, AsstManager |-> b, Officer |-> c, Executive |-> d] :
        a \in 0..(Max(n["Manager"], 0) + 1),
        b \in 0..(Max(n["AsstManager"], 0) + 1),
        c \in 0..(Max(n["Officer"], 0) + 1),
        d \in 0..(Max(n["Executive"], 0) + 1) }

\* Var(m.F, domain=NonNegativeReals): for given x the least slack the
\* workload allows (the only vertex) and one larger value
ShortDom(w, x) == {0, Max(0, w - total_hc(x) * CAPACITY_HOURS), Max(0, w)}

Feasible(w, n) ==
    LET xs == { x \in XDom(n) :
                   /\ \A r \in RoleSet : upper_rule(n, x, r)
                   /\ \A r \in RoleSet : role_share(x, r) }
    IN  UNION { {<<x, s>> : s \in {t \in ShortDom(w, x) : workload_rule(w, x, t)}} :
                x \in xs }

\* solver.solve(m) with sense=minimize: the optimal assignments (none when
\* the model is infeasible); which one of several the solver returns is its
\* own business
Solutions(w, n) ==
    LET feas == Feasible(w, n)
        vals == {obj(n, c[1], c[2]) : c \in feas}
        best == CHOOSE v \in vals : \A u \in vals : v <= u
    IN  IF feas = {} THEN {} ELSE {c \in feas : obj(n, c[1], c[2]) = best}

\* what the output table shows for one function
Outcomes(w, n) ==
    UNION { { [x |-> c[1], Workload |-> rw, Capacity |-> rc, Shortage |-> rs] :
                rw \in Round2(w),
                rc \in Round2(total_hc(c[1]) * CAPACITY_HOURS),
                rs \in Round2(c[2]) } :
            c \in Solutions(w, n) }

Rows(inp, pick) ==
    [fr \in inp.F \X RoleSet |->
        LET f == fr[1]
            r == fr[2]
        IN  [Current  |-> inp.N[f][r],
             Optimal  |-> pick[f].x[r],
             Removed  |-> inp.N[f][r] - pick[f].x[r],
             Workload |-> pick[f].Workload,
             Capacity |-> pick[f].Capacity,
             Shortage |-> pick[f].Shortage]]

\* the responses optimize can give to a request in the current store
Responses(req) ==
    LET inp == build_model_inputs(req)
        out == [f \in inp.F |-> Outcomes(inp.W[f], inp.N[f])]
    IN  IF \E f \in inp.F : out[f] = {}
        THEN {[kind |-> "optimize", req |-> req, status |-> "error",
               message |-> "Model infeasible"]}
        ELSE {[kind |-> "optimize", req |-> req, status |-> "ok",
               rows |-> Rows(inp, pick)] :
                pick \in {p \in [inp.F -> UNION {out[f] : f \in inp.F}] :
                            \A f \in inp.F : p[f] \in out[f]}}

optimize(req) ==
    /\ resp = NoResp
    /\ \A c \in Calls : pc[c] = "idle"
    /\ resp' \in Responses(req)
    /\ UNCHANGED <<EMPLOYEES, FUNCTIONS, dictId, pc, frame, last>>

Next ==
    \/ \E emp \in EmpSheets : upload_sheet(emp)
    \/ \E req \in Requests : optimize(req)
    \/ deliver

Spec == Init /\ [][Next]_vars

(***************************************************************************)
(* A client that repeats a request.  It keeps the first optimize exchange *)
(* it saw (request and response) and later sends the same payload again.  *)
(***************************************************************************)
optimize_first(req) ==
    /\ last = NoResp
    /\ optimize(req)

remember ==
    /\ resp.kind = "optimize"
    /\ last = NoResp
    /\ last' = resp
    /\ resp' = NoResp
    /\ UNCHANGED <<EMPLOYEES, FUNCTIONS, dictId, pc, frame>>

optimize_again ==
    /\ last # NoResp
    /\ optimize(last.req)

NextRerun ==
    \/ \E emp \in EmpSheets : upload_sheet(emp)
    \/ \E req \in Requests : optimize_first(req)
    \/ remember
    \/ optimize_again
    \/ deliver

SpecRerun == Init /\ [][NextRerun]_vars

(***************************************************************************)
(* upload_sheet calls running concurrently (FastAPI runs a plain def      *)
(* endpoint in a thread pool).  One step per access to the shared store:  *)
(* an augmented assignment d[k] += v reads d[k], then writes the dict     *)
(* object it read from.                                                    *)
(***************************************************************************)
Fields == <<"employees", "min", "max", "avg">>

\* the amount added by lines 59..62
Delta(emp, k) == IF k = 1 THEN 1 ELSE emp[Fields[k]]

\* lines 51, 53
call_begin(c, emp) ==
    /\ pc[c] = "idle"
    /\ EMPLOYEES' = Append(EMPLOYEES, emp)
    /\ frame' = [frame EXCEPT ![c] = [emp |-> emp, f |-> Strip(emp.func),
                                      k |-> 1, tmp |-> <<>>]]
    /\ pc' = [pc EXCEPT ![c] = "l56"]
    /\ UNCHANGED <<FUNCTIONS, dictId, resp, last>>

\* line 56
check_absent(c) ==
    /\ pc[c] = "l56"
    /\ pc' = [pc EXCEPT ![c] = IF frame[c].f \in DOMAIN FUNCTIONS THEN "read" ELSE "l57"]
    /\ UNCHANGED <<EMPLOYEES, FUNCTIONS, dictId, frame, resp, last>>

\* line 57
init_dict(c) ==
    /\ pc[c] = "l57"
    /\ FUNCTIONS' = Put(FUNCTIONS, frame[c].f, FreshDict)
    /\ dictId' = Put(dictId, frame[c].f, c)
    /\ pc' = [pc EXCEPT ![c] = "read"]
    /\ UNCHANGED <<EMPLOYEES, frame, resp, last>>

\* lines 59..62, the load of FUNCTIONS[f][k]
read_field(c) ==
    /\ pc[c] = "read"
    /\ LET f == frame[c].f
       IN  frame' = [frame EXCEPT ![c].tmp =
                        <<dictId[f], FUNCTIONS[f][Fields[frame[c].k]]>>]
    /\ pc' = [pc EXCEPT ![c] = "write"]
    /\ UNCHANGED <<EMPLOYEES, FUNCTIONS, dictId, resp, last>>

\* lines 59..62, the store into the dict that was read; line 64 after the last
write_field(c) ==
    /\ pc[c] = "write"
    /\ LET f == frame[c].f
           k == frame[c].k
           v == frame[c].tmp[2] + Delta(frame[c].emp, k)
       IN  /\ FUNCTIONS' = IF dictId[f] = frame[c].tmp[1]
                           THEN [FUNCTIONS EXCEPT ![f][Fields[k]] = v]
                           ELSE FUNCTIONS
           /\ frame' = [frame EXCEPT ![c].tmp = <<>>,
                                     ![c].k = IF k < Len(Fields) THEN k + 1 ELSE 0]
           /\ pc' = [pc EXCEPT ![c] = IF k < Len(Fields) THEN "read" ELSE "done"]
    /\ UNCHANGED <<EMPLOYEES, dictId, resp, last>>

NextConc ==
    \/ \E c \in Calls, emp \in EmpSheets : call_begin(c, emp)
    \/ \E c \in Calls : check_absent(c)
    \/ \E c \in Calls : init_dict(c)
    \/ \E c \in Calls : read_field(c)
    \/ \E c \in Calls : write_field(c)

SpecConc == Init /\ [][NextConc]_vars


(***************************************************************************)
(* Properties.  They are stated on the response in flight; the store does *)
(* not change between a handler's return and the delivery of its          *)
(* response, so Inp is the input the responding optimize call built.      *)
(***************************************************************************)
RECURSIVE SumOver(_, _)
SumOver(S, g) ==
    IF S = {} THEN 0
    ELSE LET e == CHOOSE e \in S : TRUE IN g[e] + SumOver(S \ {e}, g)

IsOptimize == resp.kind = "optimize"

OkResp == IsOptimize /\ resp.status = "ok"

Inp == build_model_inputs(resp.req)

Row(f, r) == resp.rows[<<f, r>>]

OptTotal(f) == SumOver(RoleSet, [r \in RoleSet |-> Row(f, r).Optimal])

CurTotal(f) == SumOver(RoleSet, Inp.N[f])

ShortageOf(f) == Row(f, ROLES[1]).Shortage

\* the gap a function's optimal headcount leaves uncovered
Gap(f) == Max(0, Inp.W[f] - CAPACITY_HOURS * OptTotal(f))

\* the integer assignments with 0 <= x[r] <= n[r]
Within(n) ==
    { [Manager |-> a, AsstManager |-> b, Officer |-> c, Executive |-> d] :
        a \in 0..n["Manager"], b \in 0..n["AsstManager"],
        c \in 0..n["Officer"], d \in 0..n["Executive"] }

\* x satisfies every role-share constraint
SharesHold(x) ==
    \A r \in RoleSet :
        ALPHA[r] > 0 => 100 * x[r] >= ALPHA[r] * SumOver(RoleSet, x)

\* some admissible assignment covers the workload of f
Coverable(f) ==
    \E x \in Within(Inp.N[f]) :
        SharesHold(x) /\ SumOver(RoleSet, x) * CAPACITY_HOURS >= Inp.W[f]

NonNegativeRequest == \A k \in DOMAIN resp.req : resp.req[k] >= 0

\* C1: if some assignment within the ceiling satisfies every role-share
\* constraint and covers every function's workload, optimize answers "ok"
\* and reports Shortage 0 for every function.
C1_ShortageDominance ==
    (IsOptimize /\ \A f \in Inp.F : Coverable(f))
        => /\ resp.status = "ok"
           /\ \A f \in Inp.F : ShortageOf(f) = 0

\* C1 witness: a positive workload is covered with zero shortage although
\* people had to be removed.
C1_Witness ==
    /\ OkResp
    /\ \A f \in Inp.F : Coverable(f)
    /\ \E f \in Inp.F :
        /\ Inp.W[f] > 0
        /\ OptTotal(f) < CurTotal(f)
        /\ ShortageOf(f) = 0

\* C2 as stated: every function whose current total headcount has enough
\* capacity gets a total optimal headcount of at least ceil(W/C), and at
\* most its current total.
C2_CoveredWhenHeadcountAllows ==
    OkResp =>
        \A f \in Inp.F :
            CurTotal(f) * CAPACITY_HOURS >= Inp.W[f]
                => /\ OptTotal(f) * CAPACITY_HOURS >= Inp.W[f]
                   /\ OptTotal(f) <= CurTotal(f)

\* C2 amended: every function for which some assignment within the ceiling
\* that satisfies the role-share constraints has enough capacity gets a
\* total optimal headcount of at least ceil(W/C), and at most its current
\* total.
C2_CoveredWhenSharesAllow ==
    OkResp =>
        \A f \in Inp.F :
            Coverable(f)
                => /\ OptTotal(f) * CAPACITY_HOURS >= Inp.W[f]
                   /\ OptTotal(f) <= CurTotal(f)

\* C2 witness: a workload that needs more than one person is covered by a
\* function that lost people.
C2_Witness ==
    /\ OkResp
    /\ \E f \in Inp.F :
        /\ Coverable(f)
        /\ Inp.W[f] > CAPACITY_HOURS
        /\ OptTotal(f) * CAPACITY_HOURS >= Inp.W[f]
        /\ OptTotal(f) < CurTotal(f)

\* C3: in every "ok" response each row has 0 <= Optimal <= Current and
\* Removed = Current - Optimal >= 0, Current being the request's headcount
\* for the key "f|r", 0 when the key is absent.
C3_Ceiling ==
    OkResp =>
        \A f \in Inp.F : \A r \in RoleSet :
            /\ Row(f, r).Current = Get(resp.req, KeyOf(f, r), 0)
            /\ 0 <= Row(f, r).Optimal
            /\ Row(f, r).Optimal <= Row(f, r).Current
            /\ Row(f, r).Removed = Row(f, r).Current - Row(f, r).Optimal
            /\ Row(f, r).Removed >= 0

\* C3 witness: an "ok" response with a row that removes people, a row that
\* keeps people, and a row whose key the request does not have.
C3_Witness ==
    /\ OkResp
    /\ \E f \in Inp.F : \E r1, r2 \in RoleSet :
        /\ Row(f, r1).Removed > 0
        /\ Row(f, r2).Optimal > 0
    /\ \E f \in Inp.F : \E r \in RoleSet :
        /\ KeyOf(f, r) \notin DOMAIN resp.req
        /\ Row(f, r).Current = 0

\* C4 as stated: a request with non-negative headcounts is answered "ok",
\* and the reported Shortage equals max(0, W - C * total optimal), so that
\* C * total optimal + Shortage >= W.
C4_ShortageIsGap ==
    (IsOptimize /\ NonNegativeRequest)
        => /\ resp.status = "ok"
           /\ \A f \in Inp.F :
                /\ ShortageOf(f) = Gap(f)
                /\ OptTotal(f) * CAPACITY_HOURS + ShortageOf(f) >= Inp.W[f]

\* C4 amended: a request with non-negative headcounts is answered "ok",
\* and the reported Shortage is max(0, W - C * total optimal) rounded to two
\* decimals: a multiple of 0.01 within 0.005 of the gap, so that
\* C * total optimal + Shortage >= W - 0.005.
C4_ShortageIsRoundedGap ==
    (IsOptimize /\ NonNegativeRequest)
        => /\ resp.status = "ok"
           /\ \A f \in Inp.F :
                /\ ShortageOf(f) % 10 = 0
                /\ ShortageOf(f) - Gap(f) <= 5
                /\ Gap(f) - ShortageOf(f) <= 5
                /\ OptTotal(f) * CAPACITY_HOURS + ShortageOf(f) >= Inp.W[f] - 5

\* C4 witness: a function keeps people, cannot cover its workload, and the
\* reported shortage is the rounded gap, not the gap.
C4_Witness ==
    /\ OkResp
    /\ NonNegativeRequest
    /\ \E f \in Inp.F :
        /\ OptTotal(f) > 0
        /\ Gap(f) > 0
        /\ ShortageOf(f) # Gap(f)

\* C5 as stated: for roles with penalty[lo] < penalty[hi], a person of hi
\* is removed only when no person of lo is kept.
C5_CheapRolesFirst ==
    OkResp =>
        \A f \in Inp.F : \A lo, hi \in RoleSet :
            (PENALTY_REMOVE[lo] < PENALTY_REMOVE[hi] /\ Row(f, hi).Removed > 0)
                => Row(f, lo).Optimal = 0

\* C5 amended: the same for every lo that has no role-share floor
\* (alpha[lo] = 0: Officer, Executive); in particular Officer is removed
\* before Manager.
C5_CheapUnconstrainedRolesFirst ==
    OkResp =>
        \A f \in Inp.F : \A lo, hi \in RoleSet :
            (/\ PENALTY_REMOVE[lo] < PENALTY_REMOVE[hi]
             /\ ALPHA[lo] <= 0
             /\ Row(f, hi).Removed > 0)
                => Row(f, lo).Optimal = 0

\* C5 witness: a Manager is removed, other Managers stay, and every Officer
\* the function had is removed.
C5_Witness ==
    /\ OkResp
    /\ \E f \in Inp.F :
        /\ Row(f, "Manager").Removed > 0
        /\ Row(f, "Manager").Optimal > 0
        /\ Row(f, "Officer").Current > 0
        /\ Row(f, "Officer").Optimal = 0

\* the removal weight a response keeps in function f
KeptWeight(rs, f) ==
    SumOver(RoleSet, [r \in RoleSet |-> PENALTY_REMOVE[r] * rs.rows[<<f, r>>].Optimal])

\* C6: two optimize calls with the same request payload return the same
\* rows whatever uploads ran between them.  Stated up to what the solver
\* and round() may choose freely: the same status, the same functions, per
\* function the same objective contribution, and Workload and Shortage
\* equal up to one rounding step.
C6_Stateless ==
    (IsOptimize /\ last # NoResp /\ resp.req = last.req)
        => /\ resp.status = last.status
           /\ resp.status = "ok" =>
                /\ DOMAIN resp.rows = DOMAIN last.rows
                /\ \A fr \in DOMAIN resp.rows :
                    /\ resp.rows[fr].Current = last.rows[fr].Current
                    /\ KeptWeight(resp, fr[1]) = KeptWeight(last, fr[1])
                    /\ resp.rows[fr].Workload - last.rows[fr].Workload \in -10..10
                    /\ resp.rows[fr].Shortage - last.rows[fr].Shortage \in -10..10

\* C7: a negative headcount in the request or a negative stored workload is
\* reported as an input error: never "ok", never "Model infeasible".
C7_InputValidation ==
    (/\ IsOptimize
     /\ \/ ~NonNegativeRequest
        \/ \E f \in Inp.F : Inp.W[f] < 0)
        => /\ resp.status # "ok"
           /\ ~(resp.status = "error" /\ resp.message = "Model infeasible")

\* C8: in every "ok" response, for every function and every role with
\* alpha > 0, Optimal >= alpha * total optimal of the function.
C8_RoleShare ==
    OkResp =>
        \A f \in Inp.F : \A r \in RoleSet :
            ALPHA[r] > 0 => 100 * Row(f, r).Optimal >= ALPHA[r] * OptTotal(f)

\* C8 witness: the AsstManager share is tight, people were removed for it,
\* and a role without a floor (Officer) keeps nobody although it had people.
C8_Witness ==
    /\ OkResp
    /\ \E f \in Inp.F :
        /\ OptTotal(f) > 0
        /\ OptTotal(f) < CurTotal(f)
        /\ 100 * Row(f, "AsstManager").Optimal = ALPHA["AsstManager"] * OptTotal(f)
        /\ Row(f, "Officer").Current > 0
        /\ Row(f, "Officer").Optimal = 0

\* C9: for a request with non-negative headcounts, a function whose current
\* headcounts satisfy every role-share constraint keeps everybody, whatever
\* its workload.
C9_NoRemovalWithoutShareViolation ==
    (IsOptimize /\ NonNegativeRequest)
        => /\ resp.status = "ok"
           /\ \A f \in Inp.F :
                SharesHold(Inp.N[f])
                    => \A r \in RoleSet :
                        /\ Row(f, r).Optimal = Row(f, r).Current
                        /\ Row(f, r).Removed = 0

\* C9 witness: a function with more people than its workload needs (one
\* person less would still cover it) keeps all of them.
C9_Witness ==
    /\ OkResp
    /\ NonNegativeRequest
    /\ \E f \in Inp.F :
        /\ SharesHold(Inp.N[f])
        /\ CurTotal(f) > 1
        /\ (CurTotal(f) - 1) * CAPACITY_HOURS >= Inp.W[f]
        /\ OptTotal(f) = CurTotal(f)

\* the aggregate of the stored records whose stripped func is f
Aggregate(f) ==
    LET idx == {i \in 1..Len(EMPLOYEES) : Strip(EMPLOYEES[i].func) = f}
    IN  [employees |-> Cardinality(idx),
         min |-> SumOver(idx, [i \in idx |-> EMPLOYEES[i].min]),
         max |-> SumOver(idx, [i \in idx |-> EMPLOYEES[i].max]),
         avg |-> SumOver(idx, [i \in idx |-> EMPLOYEES[i].avg])]

\* C10: once every upload_sheet call has returned, FUNCTIONS has an entry
\* exactly for the functions that have a record, and each entry is the
\* aggregate recomputed from EMPLOYEES.
C10_AggregateConsistency ==
    (\A c \in Calls : pc[c] \in {"idle", "done"})
        => /\ DOMAIN FUNCTIONS = {Strip(EMPLOYEES[i].func) : i \in 1..Len(EMPLOYEES)}
           /\ \A f \in DOMAIN FUNCTIONS : FUNCTIONS[f] = Aggregate(f)

====
